---- MODULE Spec2Model ----
(***************************************************************************)
(* Model of the manifest / tree-node read path (blobrepo/src/manifest.rs)  *)
(* and of DataEntry validation (lib/types/src/dataentry.rs).               *)
(*                                                                         *)
(* Bytes are integers 0..255, byte strings are sequences of bytes, a Node  *)
(* is a sequence of NodeLen bytes.  Results are records: [ok |-> TRUE,     *)
(* val |-> v] or [ok |-> FALSE, msg, arg, ctx] where msg names the root    *)
(* cause, arg holds the bytes the message prints and ctx is the chain of   *)
(* contexts added by with_context / context, innermost first.              *)
(***************************************************************************)
EXTENDS Integers, Sequences, FiniteSets, TLC

VARIABLES
    \* --- manifest parsing (ManifestContent::parse) ---
    recs,        \* the records the payload was rendered from
    data,        \* the payload bytes handed to the parser
    parseResult, \* result of ManifestContent::parse(data), or NotRun
    \* --- a resolved tree (BlobManifest) and its HgManifest operations ---
    tree,        \* the BlobManifest, or NotRun
    lookupRes,   \* argument and result of the last lookup, or NotRun
    listRes,     \* result of the last list(), or NotRun
    \* --- loads and fetches against a shared blobstore ---
    blobstore,   \* key -> stored blob (or Absent)
    req,         \* per task: the call it runs (operation and identity)
    pc,          \* per task: "idle", "waiting" (get in flight), "done"
    got,         \* per task: what its blobstore get resolved to
    gets,        \* per task: number of blobstore gets it issued
    result,      \* per task: the future's outcome
    \* --- DataEntry ---
    entry,       \* the DataEntry (key node, data, parents)
    dataOut      \* the last data(validate) call and what it returned

vars == <<recs, data, parseResult, tree, lookupRes, listRes,
          blobstore, req, pc, got, gets, result, entry, dataOut>>

parseVars == <<recs, data, parseResult>>
treeVars  == <<tree, lookupRes, listRes>>
loadVars  == <<blobstore, req, pc, got, gets, result>>
dataVars  == <<entry, dataOut>>

-----------------------------------------------------------------------------
(* Bounds of the model *)

\* lines (records, empty or not) per manifest payload
MaxLines == 3
\* concurrent load / fetch calls
NumLoads == 2
\* length of a DataEntry payload
MaxDataLen == 2

-----------------------------------------------------------------------------
(* Program constants *)

\* bytes of a Node (HgNodeHash / Node: a SHA-1 digest)
NodeLen == 20
\* hex characters of a node in a manifest record: data.split_at(40)
HexLen == 40

NUL == 0
NL  == 10

NotRun == [run |-> FALSE]

-----------------------------------------------------------------------------
(* Byte strings *)

Rep(b, n) == [i \in 1..n |-> b]

NULL_HASH == Rep(0, NodeLen)

\* slice order ([u8] as Ord): lexicographic, a proper prefix is smaller
RECURSIVE BytesLessFrom(_, _, _)
BytesLessFrom(a, b, i) ==
    IF i > Len(b) THEN FALSE
    ELSE IF i > Len(a) THEN TRUE
    ELSE IF a[i] < b[i] THEN TRUE
    ELSE IF a[i] > b[i] THEN FALSE
    ELSE BytesLessFrom(a, b, i + 1)

BytesLess(a, b) == BytesLessFrom(a, b, 1)

\* haystack.iter().position(|e| e == needle): 0 stands for None
RECURSIVE FindFrom(_, _, _)
FindFrom(haystack, needle, i) ==
    IF i > Len(haystack) THEN 0
    ELSE IF haystack[i] = needle THEN i
    ELSE FindFrom(haystack, needle, i + 1)

find(haystack, needle) == FindFrom(haystack, needle, 1)

\* data.split(|b| *b == b'\n'): the lines between newlines; always at least one
RECURSIVE Split(_)
Split(d) ==
    LET n == find(d, NL) IN
    IF n = 0 THEN <<d>>
    ELSE <<SubSeq(d, 1, n - 1)>> \o Split(SubSeq(d, n + 1, Len(d)))

-----------------------------------------------------------------------------
(* Results *)

Ok(v) == [ok |-> TRUE, val |-> v]
Err(m, a) == [ok |-> FALSE, msg |-> m, arg |-> a, ctx |-> <<>>]
\* .context(c) / .with_context(..): an error gains a context, a value passes
WithContext(r, c) == IF r.ok THEN r ELSE [r EXCEPT !.ctx = @ \o <<c>>]

None == [some |-> FALSE]
Some(v) == [some |-> TRUE, v |-> v]

-----------------------------------------------------------------------------
(* Hex and path segments (mercurial_types) *)

\* value of a lowercase hex character, -1 for any other byte
HexVal(c) ==
    IF c >= 48 /\ c <= 57 THEN c - 48
    ELSE IF c >= 97 /\ c <= 102 THEN c - 87
    ELSE -1

\* hash.parse::<HgNodeHash>() after str::from_utf8: HexLen hex characters
\* give the node of NodeLen bytes; anything else is an error
HgNodeHashFromStr(h) ==
    IF Len(h) = HexLen /\ \A i \in 1..Len(h) : HexVal(h[i]) >= 0
    THEN Ok([i \in 1..NodeLen |-> 16 * HexVal(h[2 * i - 1]) + HexVal(h[2 * i])])
    ELSE Err("malformed hash", h)

\* MPathElement::new: a path segment is non-empty and holds no NUL, no newline
MPathElementNew(p) ==
    IF p = <<>> \/ \E i \in 1..Len(p) : p[i] \in {NUL, NL}
    THEN Err("invalid path element", p)
    ELSE Ok(p)

-----------------------------------------------------------------------------
(* parse_hg_entry and ManifestContent::parse *)

FileEntry(ft, n) == [type |-> "File", ft |-> ft, node |-> n]
TreeEntry(n) == [type |-> "Tree", ft |-> "-", node |-> n]

\* the match on the flag byte, given a decoded hash
FlagEntrySwapped(flags, hash) ==
    IF Len(flags) = 0 THEN Ok(FileEntry("Regular", hash))
    ELSE IF flags[1] = 108 THEN Ok(FileEntry("Executable", hash))
    ELSE IF flags[1] = 120 THEN Ok(FileEntry("Symlink", hash))
    ELSE IF flags[1] = 116 THEN Ok(TreeEntry(hash))
    ELSE Err("Unknown flag", <<flags[1]>>)
FlagEntry(flags, hash) ==
    IF Len(flags) = 0 THEN Ok(FileEntry("Regular", hash))
    ELSE IF flags[1] = 108 THEN Ok(FileEntry("Symlink", hash))
    ELSE IF flags[1] = 120 THEN Ok(FileEntry("Executable", hash))
    ELSE IF flags[1] = 116 THEN Ok(TreeEntry(hash))
    ELSE Err("Unknown flag", <<flags[1]>>)

parse_hg_entry(d) ==
    IF Len(d) < HexLen THEN Err("hash too small", d)
    ELSE
        LET hashStr == SubSeq(d, 1, HexLen)
            flags == SubSeq(d, HexLen + 1, Len(d))
            hash == WithContext(HgNodeHashFromStr(hashStr), "malformed hash")
        IN  IF ~hash.ok THEN hash
            ELSE IF Len(flags) > 1 THEN Err("More than 1 flag", flags)
            ELSE FlagEntry(flags, hash.val)

\* BTreeMap::insert: the later value replaces an earlier one under the same key
MapInsertKeepFirst(files, k, v) ==
    [p \in DOMAIN files \cup {k} |-> IF p \in DOMAIN files THEN files[p] ELSE v]
MapInsert(files, k, v) ==
    [p \in DOMAIN files \cup {k} |-> IF p = k THEN v ELSE files[p]]

\* line.split_at(nil) then rest.split_first(): the name, and the bytes after
\* the NUL.  rest starts with the NUL itself, so split_first always succeeds.
SplitRecord(line, nil) ==
    LET name == SubSeq(line, 1, nil - 1)
        rest == SubSeq(line, nil, Len(line))
    IN  IF Len(rest) >= 1
        THEN Ok([name |-> name, hash |-> SubSeq(rest, 2, Len(rest))])
        ELSE Err("Malformed entry: no hash", <<>>)

\* the for loop of parse_impl from line i on, files being the map so far
RECURSIVE ParseLines(_, _, _)
ParseLines(lines, i, files) ==
    IF i > Len(lines) THEN Ok(files)
    ELSE IF Len(lines[i]) = 0 THEN Ok(files)   \* break
    ELSE
        LET nil == find(lines[i], NUL) IN
        IF nil = 0 THEN Err("Malformed entry: no \\0", <<>>)
        ELSE
            LET nr == SplitRecord(lines[i], nil) IN
            IF ~nr.ok THEN nr
            ELSE
                LET path == WithContext(MPathElementNew(nr.val.name),
                                        "invalid path in manifest")
                IN  IF ~path.ok THEN path
                    ELSE
                        LET entry_id == parse_hg_entry(nr.val.hash) IN
                        IF ~entry_id.ok THEN entry_id
                        ELSE ParseLines(lines, i + 1,
                                        MapInsert(files, path.val, entry_id.val))

parse_impl(d) == ParseLines(Split(d), 1, <<>>)

\* ManifestContent::parse: Ok(ManifestContent { files })
ManifestContentParse(d) ==
    LET r == parse_impl(d) IN
    IF r.ok THEN Ok([files |-> r.val]) ELSE r

new_empty == [files |-> <<>>]

-----------------------------------------------------------------------------
(* Envelopes and the blobstore (mercurial_types, blobstore) *)

NodeA == Rep(170, NodeLen)
NodeB == Rep(187, NodeLen)

\* node_id.blobstore_key(): a key derived from the identity alone
BlobstoreKey(n) == <<"hgmanifest.sha1", n>>

\* a stored blob: the serialized envelope; an absent parent is an empty field
EnvelopeBlob(n, p1, p2, computed, contents) ==
    [magic |-> "envelope", node_id |-> n, p1 |-> p1, p2 |-> p2,
     computed_node_id |-> computed, contents |-> contents]

GarbageBlob == [magic |-> "junk"]

OptNode(field) == IF field = <<>> THEN None ELSE Some(field)

\* HgManifestEnvelope::from_blob: decode the envelope or fail
HgManifestEnvelopeFromBlob(blob) ==
    IF blob.magic = "envelope"
    THEN Ok([node_id |-> blob.node_id, p1 |-> OptNode(blob.p1),
             p2 |-> OptNode(blob.p2),
             computed_node_id |-> blob.computed_node_id,
             contents |-> blob.contents])
    ELSE Err("envelope decode failed", <<>>)

\* blobstore.get(key) when the store answers: Some(bytes) or None
BlobstoreGet(store, key) == Ok(store[key])
\* blobstore.get(key) when the store itself fails
BlobstoreGetFailed == Err("blobstore get failed", <<>>)

\* the handle every tree node and entry handle shares (an Arc clone)
StoreHandle == "repo_blobstore"

-----------------------------------------------------------------------------
(* fetch_manifest_envelope_opt, fetch_manifest_envelope, BlobManifest *)

\* node_id.into_nodehash() != envelope.node_id()
IdentityMismatchAlt(requested, envelope) == requested # envelope.computed_node_id
IdentityMismatch(requested, envelope) == requested # envelope.node_id

\* the and_then closure of fetch_manifest_envelope_opt on the bytes of the get
DecodeEnvelopeNoneOnFailure(node_id, bytes) ==
    IF ~bytes.some THEN Ok(None)
    ELSE
        LET envelope == HgManifestEnvelopeFromBlob(bytes.v) IN
        IF ~envelope.ok THEN Ok(None)
        ELSE IF IdentityMismatch(node_id, envelope.val)
        THEN Ok(None)
        ELSE Ok(Some(envelope.val))
DecodeEnvelope(node_id, bytes) ==
    IF ~bytes.some THEN Ok(None)
    ELSE
        LET envelope == HgManifestEnvelopeFromBlob(bytes.v) IN
        IF ~envelope.ok THEN envelope
        ELSE IF IdentityMismatch(node_id, envelope.val)
        THEN Err("Manifest ID mismatch", node_id \o envelope.val.node_id)
        ELSE Ok(Some(envelope.val))

\* getres is what blobstore.get resolved to
fetch_manifest_envelope_opt(node_id, getres) ==
    LET fetched == WithContext(getres, "While fetching manifest envelope blob")
        decoded == IF fetched.ok THEN DecodeEnvelope(node_id, fetched.val)
                   ELSE fetched
    IN  WithContext(decoded, "ManifestDeserializeFailed")

fetch_manifest_envelope(manifest_id, getres) ==
    LET envelope == fetch_manifest_envelope_opt(manifest_id, getres) IN
    IF ~envelope.ok THEN envelope
    ELSE IF ~envelope.val.some THEN Err("HgContentMissing", manifest_id)
    ELSE Ok(envelope.val.v)

\* BlobManifest::parse
BlobManifestParse(envelope) ==
    LET content == WithContext(ManifestContentParse(envelope.contents),
                               "while parsing contents for manifest ID")
    IN  IF ~content.ok THEN content
        ELSE Ok([blobstore |-> StoreHandle,
                 node_id |-> envelope.node_id,
                 p1 |-> envelope.p1,
                 p2 |-> envelope.p2,
                 computed_node_id |-> envelope.computed_node_id,
                 content |-> content.val])

\* the tree BlobManifest::load builds for the null identity
NullManifest ==
    [blobstore |-> StoreHandle, node_id |-> NULL_HASH, p1 |-> None, p2 |-> None,
     computed_node_id |-> NULL_HASH, content |-> new_empty]

\* manifestid.into_nodehash() == NULL_HASH: load answers without a get
LoadSkipsStoreNever(manifestid) == FALSE
LoadSkipsStore(manifestid) == manifestid = NULL_HASH

\* the else branch of BlobManifest::load, once the get has resolved
LoadFetched(manifestid, getres) ==
    LET envelope == fetch_manifest_envelope_opt(manifestid, getres)
        loaded == IF ~envelope.ok THEN envelope
                  ELSE IF envelope.val.some
                  THEN LET m == BlobManifestParse(envelope.val.v) IN
                       IF m.ok THEN Ok(Some(m.val)) ELSE m
                  ELSE Ok(None)
    IN  WithContext(loaded, "When loading manifest from blobstore")

-----------------------------------------------------------------------------
(* impl HgManifest for BlobManifest *)

\* HgBlobEntry::new(blobstore, path, entry_id.into_nodehash(), entry_id.get_type())
HgBlobEntryNew(store, path, entry_id) ==
    [blobstore |-> store, path |-> path, node |-> entry_id.node,
     type |-> entry_id.type, ft |-> entry_id.ft]

lookup(self, path) ==
    IF path \in DOMAIN self.content.files
    THEN Some(HgBlobEntryNew(self.blobstore, path, self.content.files[path]))
    ELSE None

\* the keys of a BTreeMap in iteration order: ascending by Ord of the key bytes
RECURSIVE KeysDescending(_)
KeysDescending(keys) ==
    IF keys = {} THEN <<>>
    ELSE LET k == CHOOSE x \in keys : \A y \in keys : x = y \/ BytesLess(y, x)
         IN  <<k>> \o KeysDescending(keys \ {k})
RECURSIVE KeysInOrder(_)
KeysInOrder(keys) ==
    IF keys = {} THEN <<>>
    ELSE LET k == CHOOSE x \in keys : \A y \in keys : x = y \/ BytesLess(x, y)
         IN  <<k>> \o KeysInOrder(keys \ {k})

\* list(): the handles of files.clone().into_iter(), collected
list(self) ==
    LET keys == KeysInOrder(DOMAIN self.content.files) IN
    [i \in 1..Len(keys) |->
        HgBlobEntryNew(self.blobstore, keys[i], self.content.files[keys[i]])]

-----------------------------------------------------------------------------
(* DataEntry (lib/types/src/dataentry.rs) *)

\* SHA-1 (FIPS 180-4) of the messages a DataEntry of this model hashes,
\* tabulated: row [a, b, n] is the digest of 20 bytes a, 20 bytes b and n
\* bytes 'a' (97).
Sha1Table == {
    [a |-> 0, b |-> 0, n |-> 0, digest |->
        <<184, 13, 229, 209, 56, 117, 133, 65, 197, 240, 82, 101, 173, 20, 74, 185, 250, 134, 209, 219>>],
    [a |-> 0, b |-> 0, n |-> 1, digest |->
        <<4, 123, 117, 198, 215, 163, 239, 106, 34, 67, 189, 14, 153, 249, 79, 110, 166, 104, 53, 151>>],
    [a |-> 0, b |-> 0, n |-> 2, digest |->
        <<24, 187, 241, 105, 150, 208, 138, 151, 215, 150, 126, 72, 163, 140, 219, 4, 209, 45, 72, 224>>],
    [a |-> 0, b |-> 0, n |-> 3, digest |->
        <<225, 42, 10, 46, 184, 62, 235, 89, 214, 139, 118, 166, 221, 161, 129, 141, 91, 52, 102, 173>>],
    [a |-> 0, b |-> 0, n |-> 4, digest |->
        <<168, 47, 21, 72, 168, 93, 181, 162, 24, 94, 134, 57, 178, 42, 40, 219, 208, 59, 46, 207>>],
    [a |-> 0, b |-> 170, n |-> 0, digest |->
        <<214, 235, 196, 224, 78, 22, 18, 161, 174, 70, 92, 81, 192, 144, 96, 139, 197, 230, 225, 116>>],
    [a |-> 0, b |-> 170, n |-> 1, digest |->
        <<14, 25, 194, 29, 171, 75, 102, 194, 217, 123, 208, 63, 76, 16, 17, 104, 6, 221, 36, 164>>],
    [a |-> 0, b |-> 170, n |-> 2, digest |->
        <<14, 206, 212, 158, 7, 255, 155, 37, 190, 135, 78, 157, 130, 247, 8, 37, 52, 218, 6, 190>>],
    [a |-> 0, b |-> 170, n |-> 3, digest |->
        <<17, 142, 167, 49, 55, 249, 55, 157, 229, 243, 219, 44, 72, 83, 78, 228, 82, 97, 253, 28>>],
    [a |-> 0, b |-> 170, n |-> 4, digest |->
        <<248, 33, 148, 198, 149, 10, 137, 0, 31, 209, 62, 6, 202, 179, 30, 34, 110, 60, 53, 188>>],
    [a |-> 0, b |-> 187, n |-> 0, digest |->
        <<175, 64, 221, 196, 172, 161, 84, 167, 31, 194, 21, 241, 126, 79, 229, 168, 47, 18, 227, 21>>],
    [a |-> 0, b |-> 187, n |-> 1, digest |->
        <<217, 37, 13, 13, 54, 95, 192, 184, 206, 88, 117, 212, 41, 201, 252, 53, 101, 245, 185, 252>>],
    [a |-> 0, b |-> 187, n |-> 2, digest |->
        <<162, 116, 237, 2, 65, 180, 194, 121, 254, 65, 37, 66, 242, 225, 222, 31, 73, 133, 145, 100>>],
    [a |-> 0, b |-> 187, n |-> 3, digest |->
        <<29, 238, 211, 218, 210, 216, 79, 145, 78, 141, 156, 57, 10, 202, 243, 50, 30, 171, 114, 217>>],
    [a |-> 0, b |-> 187, n |-> 4, digest |->
        <<123, 144, 201, 110, 87, 162, 80, 11, 44, 226, 125, 127, 74, 224, 148, 174, 128, 134, 226, 36>>],
    [a |-> 170, b |-> 0, n |-> 0, digest |->
        <<9, 215, 253, 55, 101, 236, 151, 132, 253, 91, 204, 197, 31, 95, 53, 159, 46, 42, 248, 62>>],
    [a |-> 170, b |-> 0, n |-> 1, digest |->
        <<109, 67, 221, 166, 113, 200, 227, 191, 175, 66, 242, 183, 58, 86, 105, 230, 136, 97, 198, 210>>],
    [a |-> 170, b |-> 0, n |-> 2, digest |->
        <<58, 51, 92, 192, 153, 202, 108, 74, 109, 239, 248, 116, 3, 211, 212, 126, 221, 21, 2, 5>>],
    [a |-> 170, b |-> 0, n |-> 3, digest |->
        <<233, 47, 125, 17, 124, 66, 248, 54, 139, 129, 64, 101, 26, 52, 89, 6, 70, 232, 211, 254>>],
    [a |-> 170, b |-> 0, n |-> 4, digest |->
        <<177, 251, 58, 98, 106, 45, 155, 124, 228, 95, 8, 221, 232, 109, 215, 153, 17, 198, 159, 44>>],
    [a |-> 170, b |-> 170, n |-> 0, digest |->
        <<88, 45, 255, 235, 18, 155, 156, 110, 30, 14, 225, 172, 174, 176, 8, 182, 141, 94, 80, 47>>],
    [a |-> 170, b |-> 170, n |-> 1, digest |->
        <<97, 21, 225, 67, 16, 12, 168, 72, 191, 171, 176, 34, 174, 34, 229, 54, 8, 200, 135, 130>>],
    [a |-> 170, b |-> 170, n |-> 2, digest |->
        <<201, 131, 132, 200, 79, 218, 100, 238, 131, 159, 218, 11, 252, 169, 212, 21, 162, 188, 95, 161>>],
    [a |-> 170, b |-> 170, n |-> 3, digest |->
        <<252, 130, 160, 44, 28, 76, 196, 231, 84, 33, 120, 162, 225, 199, 212, 153, 248, 129, 171, 214>>],
    [a |-> 170, b |-> 170, n |-> 4, digest |->
        <<13, 228, 193, 127, 252, 8, 3, 245, 102, 20, 239, 188, 224, 197, 236, 139, 152, 199, 199, 254>>],
    [a |-> 170, b |-> 187, n |-> 0, digest |->
        <<210, 133, 207, 220, 10, 168, 92, 149, 214, 217, 226, 221, 65, 63, 2, 96, 127, 64, 32, 244>>],
    [a |-> 170, b |-> 187, n |-> 1, digest |->
        <<212, 37, 26, 191, 91, 235, 220, 234, 185, 25, 8, 12, 144, 79, 240, 144, 11, 192, 99, 168>>],
    [a |-> 170, b |-> 187, n |-> 2, digest |->
        <<147, 191, 168, 240, 105, 82, 27, 132, 239, 97, 13, 74, 130, 196, 233, 70, 140, 158, 46, 153>>],
    [a |-> 170, b |-> 187, n |-> 3, digest |->
        <<1, 119, 232, 61, 34, 24, 177, 191, 82, 149, 74, 165, 22, 134, 106, 179, 236, 89, 85, 35>>],
    [a |-> 170, b |-> 187, n |-> 4, digest |->
        <<139, 24, 242, 228, 168, 5, 105, 157, 44, 161, 41, 97, 83, 147, 47, 77, 133, 116, 180, 36>>],
    [a |-> 187, b |-> 0, n |-> 0, digest |->
        <<42, 207, 207, 208, 48, 142, 118, 140, 36, 138, 201, 170, 24, 175, 195, 222, 205, 26, 160, 1>>],
    [a |-> 187, b |-> 0, n |-> 1, digest |->
        <<57, 219, 76, 145, 233, 116, 252, 246, 228, 69, 94, 52, 232, 154, 118, 130, 220, 61, 234, 144>>],
    [a |-> 187, b |-> 0, n |-> 2, digest |->
        <<177, 169, 102, 255, 112, 193, 130, 41, 74, 237, 108, 138, 219, 178, 224, 205, 58, 218, 86, 81>>],
    [a |-> 187, b |-> 0, n |-> 3, digest |->
        <<195, 204, 175, 36, 231, 131, 29, 59, 98, 161, 102, 66, 204, 159, 229, 129, 154, 5, 240, 55>>],
    [a |-> 187, b |-> 0, n |-> 4, digest |->
        <<158, 130, 5, 220, 57, 172, 121, 172, 255, 200, 222, 243, 27, 50, 124, 79, 58, 219, 92, 247>>],
    [a |-> 187, b |-> 170, n |-> 0, digest |->
        <<217, 228, 57, 242, 148, 86, 120, 215, 85, 227, 12, 38, 210, 138, 239, 142, 86, 224, 179, 166>>],
    [a |-> 187, b |-> 170, n |-> 1, digest |->
        <<27, 224, 253, 143, 193, 134, 192, 14, 24, 127, 24, 31, 8, 11, 252, 243, 149, 14, 234, 146>>],
    [a |-> 187, b |-> 170, n |-> 2, digest |->
        <<194, 39, 102, 208, 226, 107, 170, 241, 65, 198, 247, 26, 136, 63, 216, 38, 186, 79, 130, 160>>],
    [a |-> 187, b |-> 170, n |-> 3, digest |->
        <<120, 195, 158, 166, 40, 28, 11, 63, 197, 163, 170, 41, 140, 105, 9, 243, 106, 43, 31, 177>>],
    [a |-> 187, b |-> 170, n |-> 4, digest |->
        <<124, 115, 66, 87, 133, 54, 184, 69, 114, 182, 129, 38, 82, 10, 132, 4, 12, 133, 213, 62>>],
    [a |-> 187, b |-> 187, n |-> 0, digest |->
        <<179, 251, 109, 247, 9, 87, 72, 63, 98, 251, 79, 253, 82, 244, 89, 170, 117, 151, 191, 25>>],
    [a |-> 187, b |-> 187, n |-> 1, digest |->
        <<226, 63, 59, 51, 188, 131, 53, 97, 180, 235, 73, 116, 67, 105, 163, 224, 107, 142, 229, 215>>],
    [a |-> 187, b |-> 187, n |-> 2, digest |->
        <<59, 217, 187, 173, 110, 201, 9, 59, 60, 71, 170, 75, 210, 167, 49, 41, 140, 175, 0, 191>>],
    [a |-> 187, b |-> 187, n |-> 3, digest |->
        <<181, 90, 55, 149, 185, 117, 20, 179, 21, 128, 232, 45, 122, 110, 204, 131, 63, 92, 212, 142>>],
    [a |-> 187, b |-> 187, n |-> 4, digest |->
        <<67, 20, 146, 59, 148, 125, 36, 114, 250, 182, 0, 49, 60, 229, 35, 252, 12, 223, 188, 149>>]
}

\* hasher.input(..) ...; hasher.result(&mut hash): the digest of the bytes fed
Sha1(m) ==
    LET row == CHOOSE r \in Sha1Table :
                   m = Rep(r.a, NodeLen) \o Rep(r.b, NodeLen) \o Rep(97, r.n)
    IN  row.digest

\* Parents::into_nodes: an absent parent is the null node
IntoNodes(parents) ==
    <<IF parents[1].some THEN parents[1].v ELSE NULL_HASH,
      IF parents[2].some THEN parents[2].v ELSE NULL_HASH>>

\* the match in validate: (p1, p2) if p1 > p2 => (p2, p1)
SortedParentsUnsorted(nodes) == nodes
SortedParents(nodes) ==
    IF BytesLess(nodes[2], nodes[1]) THEN <<nodes[2], nodes[1]>> ELSE nodes

\* DataEntry::validate
validate(self) ==
    LET ps == SortedParents(IntoNodes(self.parents))
        computed == Sha1(ps[1] \o ps[2] \o self.data)
        expected == self.key.node
    IN  IF computed = expected THEN Ok(<<>>)
        ELSE Err("Content hash validation failed", expected \o computed)

\* DataEntry::data(validate)
DataEntryDataUnchecked(self, validateFlag) == Ok(self.data)
DataEntryData(self, validateFlag) ==
    IF validateFlag /\ ~validate(self).ok THEN validate(self)
    ELSE Ok(self.data)

-----------------------------------------------------------------------------
(* Inputs: manifest payloads, rendered from records in the stored format   *)
(*   <filename>\0<hex file revision id>[<flags>]\n                         *)

SeqsUpTo(S, n) == UNION {[1..k -> S] : k \in 1..n}

Rec(path, sep, hash, flags) ==
    [path |-> path, sep |-> sep, hash |-> hash, flags |-> flags]

EmptyRec == Rec(<<>>, FALSE, <<>>, <<>>)

RenderRec(r) ==
    r.path \o (IF r.sep THEN <<NUL>> ELSE <<>>) \o r.hash \o r.flags

\* the lines joined by single newline bytes
RECURSIVE Render(_)
Render(rs) ==
    IF Len(rs) = 0 THEN <<>>
    ELSE IF Len(rs) = 1 THEN RenderRec(rs[1])
    ELSE RenderRec(rs[1]) \o <<NL>> \o Render(Tail(rs))

PathFile == <<102, 105, 108, 101, 46, 116, 120, 116>>
PathSubdir == <<115, 117, 98, 100, 105, 114>>
PathA == <<97>>
PathAB == <<97, 98>>
PathB == <<98>>
PathFoo == <<102, 111, 111>>
PathFoo1Bar == <<102, 111, 111, 1, 98, 97, 114>>

HexA == Rep(97, HexLen)
HexB == Rep(98, HexLen)
\* 0123456789abcdef, repeated: every hex digit, and the node it spells
HexDigits == <<48, 49, 50, 51, 52, 53, 54, 55, 56, 57, 97, 98, 99, 100, 101, 102>>
HexMixed == [i \in 1..HexLen |-> HexDigits[((i - 1) % 16) + 1]]
NodeMixedBytes == <<1, 35, 69, 103, 137, 171, 205, 239>>
NodeMixed == [i \in 1..NodeLen |-> NodeMixedBytes[((i - 1) % 8) + 1]]

\* well-formed records
RecFileA == Rec(PathFile, TRUE, HexA, <<>>)
RecSubdirB == Rec(PathSubdir, TRUE, HexB, <<116>>)
RecFileBLink == Rec(PathFile, TRUE, HexB, <<108>>)
RecAExec == Rec(PathA, TRUE, HexA, <<120>>)

\* the payload  file.txt\0 a*40 \n subdir\0 b*40 t \n
ScenarioPayload == Render(<<RecFileA, RecSubdirB, EmptyRec>>)

\* records of the parser's payloads: well-formed ones, the empty line, and
\* one for each way a record can be malformed
ParseRecords ==
    { EmptyRec, RecFileA, RecSubdirB, RecFileBLink, RecAExec,
      Rec(PathA, TRUE, HexA, <<122>>),            \* unknown flag z
      Rec(PathA, TRUE, HexA, <<108, 116>>),       \* two flags
      Rec(PathFoo1Bar, FALSE, <<>>, <<>>),        \* no NUL
      Rec(PathFoo, TRUE, <<>>, <<>>),             \* nothing after the NUL
      Rec(PathA, TRUE, Rep(103, HexLen), <<>>),   \* 40 non-hex characters
      Rec(PathA, TRUE, Rep(97, HexLen - 1), <<>>),\* 39 hex characters
      Rec(<<>>, TRUE, HexA, <<>>) }               \* empty path

\* single records  <path> \0 <40 hex> <flags>  with every short flag string
MaxFlagLen == 2
FlagBytes == {108, 120, 116, 122, 97, NUL}
FlagSeqs == UNION {[1..k -> FlagBytes] : k \in 0..MaxFlagLen}
EntryRecords ==
    { Rec(p, TRUE, h, f) : p \in {PathFile, PathSubdir, PathA},
                           h \in {HexA, HexB, HexMixed}, f \in FlagSeqs }

\* well-formed records of a tree, some sharing a path, and the empty line
TreeRecords ==
    { EmptyRec, RecFileA, RecSubdirB, RecFileBLink, RecAExec,
      Rec(PathAB, TRUE, HexMixed, <<>>), Rec(PathB, TRUE, HexA, <<116>>) }

ProbePaths == {PathFile, PathSubdir, PathA, PathAB, PathB, PathFoo}

-----------------------------------------------------------------------------
(* Inputs: blobstores *)

ManifestIds == {NULL_HASH, NodeA, NodeB}
Keys == {BlobstoreKey(n) : n \in ManifestIds}

\* what may be stored under the key of identity n (other: another identity)
BlobChoices(n, other) ==
    { None,
      Some(GarbageBlob),
      Some(EnvelopeBlob(n, other, <<>>, other, ScenarioPayload)),
      Some(EnvelopeBlob(other, <<>>, <<>>, n, ScenarioPayload)),
      Some(EnvelopeBlob(n, <<>>, <<>>, n, PathFoo1Bar)),
      Some(EnvelopeBlob(n, <<>>, <<>>, n, <<>>)) }

Stores ==
    { [k \in Keys |->
          IF k = BlobstoreKey(NULL_HASH) THEN x
          ELSE IF k = BlobstoreKey(NodeA) THEN y ELSE z] :
      x \in {None, Some(EnvelopeBlob(NULL_HASH, NodeA, <<>>, NULL_HASH,
                                     ScenarioPayload))},
      y \in BlobChoices(NodeA, NodeB),
      z \in {None, Some(EnvelopeBlob(NodeB, NodeA, NodeA, NodeB,
                                     Render(<<RecAExec>>)))} }

Tasks == 1..NumLoads
Ops == {"load", "fetch_manifest_envelope", "fetch_manifest_envelope_opt"}

-----------------------------------------------------------------------------
(* Inputs: data entries *)

EntryNodes == {NULL_HASH, NodeA, NodeB}
OptNodes == {None} \cup {Some(n) : n \in EntryNodes}
DataPayloads == {Rep(97, n) : n \in 0..MaxDataLen}
KeyNodes ==
    {NULL_HASH} \cup
    {Sha1(a \o b \o d) : a \in EntryNodes, b \in EntryNodes, d \in DataPayloads}

DataEntryNew(key, d, parents) == [key |-> key, data |-> d, parents |-> parents]

Entries ==
    { DataEntryNew([path |-> PathFile, node |-> k], d, <<p1, p2>>) :
        k \in KeyNodes, d \in DataPayloads, p1 \in OptNodes, p2 \in OptNodes }

-----------------------------------------------------------------------------
(* Initial states: each specification starts one component, the others idle *)

ParseIdle == recs = <<>> /\ data = <<>> /\ parseResult = NotRun
TreeIdle == tree = NotRun /\ lookupRes = NotRun /\ listRes = NotRun
LoadIdle ==
    /\ blobstore = <<>>
    /\ req = <<>> /\ pc = <<>> /\ got = <<>> /\ gets = <<>> /\ result = <<>>
DataIdle == entry = NotRun /\ dataOut = NotRun

InitParse ==
    /\ recs \in SeqsUpTo(ParseRecords, MaxLines)
    /\ data = Render(recs)
    /\ parseResult = NotRun
    /\ TreeIdle /\ LoadIdle /\ DataIdle

InitEntry ==
    /\ recs \in {<<r>> : r \in EntryRecords}
    /\ data = Render(recs)
    /\ parseResult = NotRun
    /\ TreeIdle /\ LoadIdle /\ DataIdle

InitTree ==
    /\ recs \in SeqsUpTo(TreeRecords, MaxLines)
    /\ data = Render(recs)
    /\ parseResult = NotRun
    /\ TreeIdle /\ LoadIdle /\ DataIdle

InitLoad ==
    /\ blobstore \in Stores
    /\ req = [t \in Tasks |-> NotRun]
    /\ pc = [t \in Tasks |-> "idle"]
    /\ got = [t \in Tasks |-> NotRun]
    /\ gets = [t \in Tasks |-> 0]
    /\ result = [t \in Tasks |-> NotRun]
    /\ ParseIdle /\ TreeIdle /\ DataIdle

InitData ==
    /\ entry \in Entries
    /\ dataOut = NotRun
    /\ ParseIdle /\ TreeIdle /\ LoadIdle

-----------------------------------------------------------------------------
(* Actions *)

\* ManifestContent::parse(data)
Parse ==
    /\ parseResult = NotRun
    /\ parseResult' = ManifestContentParse(data)
    /\ UNCHANGED <<recs, data, treeVars, loadVars, dataVars>>

\* BlobManifest::parse on an envelope whose contents are the payload
TreeParse ==
    /\ tree = NotRun
    /\ LET m == BlobManifestParse([node_id |-> NodeA, p1 |-> Some(NodeB),
                                   p2 |-> None, computed_node_id |-> NodeA,
                                   contents |-> data])
       IN  m.ok /\ tree' = m.val
    /\ UNCHANGED <<parseVars, lookupRes, listRes, loadVars, dataVars>>

\* tree.lookup(path): &self, the tree is only read
Lookup(path) ==
    /\ tree # NotRun
    /\ lookupRes' = [run |-> TRUE, self |-> tree, path |-> path,
                     res |-> lookup(tree, path)]
    /\ UNCHANGED <<parseVars, tree, listRes, loadVars, dataVars>>

\* tree.list(), the iterator drained: &self, the tree is only read
List ==
    /\ tree # NotRun
    /\ listRes' = [run |-> TRUE, self |-> tree, res |-> list(tree)]
    /\ UNCHANGED <<parseVars, tree, lookupRes, loadVars, dataVars>>

\* a caller starts load / fetch_manifest_envelope(_opt) for an identity:
\* load of the null identity is ready at once, every other call issues
\* blobstore.get and waits
Call(t, op, id) ==
    /\ pc[t] = "idle"
    /\ req' = [req EXCEPT ![t] = [run |-> TRUE, op |-> op, id |-> id]]
    /\ IF op = "load" /\ LoadSkipsStore(id)
       THEN /\ result' = [result EXCEPT ![t] = Ok(Some(NullManifest))]
            /\ pc' = [pc EXCEPT ![t] = "done"]
            /\ UNCHANGED gets
       ELSE /\ gets' = [gets EXCEPT ![t] = @ + 1]
            /\ pc' = [pc EXCEPT ![t] = "waiting"]
            /\ UNCHANGED result
    /\ UNCHANGED <<parseVars, treeVars, blobstore, got, dataVars>>

\* the blobstore answers the get of task t
GetAnswers(t) ==
    /\ pc[t] = "waiting"
    /\ got' = [got EXCEPT ![t] = BlobstoreGet(blobstore, BlobstoreKey(req[t].id))]
    /\ pc' = [pc EXCEPT ![t] = "fetched"]
    /\ UNCHANGED <<parseVars, treeVars, blobstore, req, gets, result, dataVars>>

\* the blobstore fails the get of task t
GetFails(t) ==
    /\ pc[t] = "waiting"
    /\ got' = [got EXCEPT ![t] = BlobstoreGetFailed]
    /\ pc' = [pc EXCEPT ![t] = "fetched"]
    /\ UNCHANGED <<parseVars, treeVars, blobstore, req, gets, result, dataVars>>

\* the bytes the continuation of task t was handed: its own get's
FetchedShared(t) == IF got[1] # NotRun THEN got[1] ELSE got[t]
Fetched(t) == got[t]

\* what the call's combinator chain makes of the resolved get
Continuation(r, getres) ==
    IF r.op = "load" THEN LoadFetched(r.id, getres)
    ELSE IF r.op = "fetch_manifest_envelope"
    THEN fetch_manifest_envelope(r.id, getres)
    ELSE fetch_manifest_envelope_opt(r.id, getres)

\* task t is polled with its get resolved: decode, identity check, parse
Continue(t) ==
    /\ pc[t] = "fetched"
    /\ result' = [result EXCEPT ![t] = Continuation(req[t], Fetched(t))]
    /\ pc' = [pc EXCEPT ![t] = "done"]
    /\ UNCHANGED <<parseVars, treeVars, blobstore, req, got, gets, dataVars>>

\* entry.data(validate): &self, the entry is only read
Data(validateFlag) ==
    /\ dataOut' = [run |-> TRUE, self |-> entry, validate |-> validateFlag,
                   res |-> DataEntryData(entry, validateFlag)]
    /\ UNCHANGED <<parseVars, treeVars, loadVars, entry>>

-----------------------------------------------------------------------------
(* Specifications *)

NextParse == Parse

NextTree ==
    \/ TreeParse
    \/ \E p \in ProbePaths : Lookup(p)
    \/ List

NextLoad ==
    \/ \E t \in Tasks, op \in Ops, id \in ManifestIds : Call(t, op, id)
    \/ \E t \in Tasks : GetAnswers(t)
    \/ \E t \in Tasks : GetFails(t)
    \/ \E t \in Tasks : Continue(t)

NextData == \E v \in BOOLEAN : Data(v)

Next == NextParse \/ NextTree \/ NextLoad \/ NextData

SpecParse == InitParse /\ [][NextParse]_vars
SpecEntry == InitEntry /\ [][NextParse]_vars
SpecTree == InitTree /\ [][NextTree]_vars
SpecLoad == InitLoad /\ [][NextLoad]_vars
SpecData == InitData /\ [][NextData]_vars
Spec == SpecLoad

-----------------------------------------------------------------------------
(* Properties of load / fetch_manifest_envelope(_opt), under SpecLoad *)

Done(t) == pc[t] = "done"
Stored(id) == blobstore[BlobstoreKey(id)]
\* the blobstore answered the get of task t (it did not fail)
Answered(t) == got[t] # NotRun /\ got[t].ok
ReturnsValue(t) == result[t].ok /\ (req[t].op = "fetch_manifest_envelope" \/ result[t].val.some)
ReturnedNodeId(t) ==
    IF req[t].op = "fetch_manifest_envelope" THEN result[t].val.node_id
    ELSE result[t].val.v.node_id

\* the stored bytes decode to an envelope whose node_id is not the identity
StoredMismatch(id) ==
    /\ Stored(id).some
    /\ Stored(id).v.magic = "envelope"
    /\ Stored(id).v.node_id # id

\* C1: for a non-null requested identity whose stored bytes decode to an
\* envelope with a different node_id, load, fetch_manifest_envelope and
\* fetch_manifest_envelope_opt fail, with the identity-mismatch error once
\* the bytes were fetched, and return no tree and no envelope; every tree or
\* envelope returned for a non-null identity carries the requested identity
\* as node_id, whatever its computed_node_id.
C1_IdentityChecked ==
    \A t \in Tasks :
        (Done(t) /\ req[t].id # NULL_HASH) =>
            /\ StoredMismatch(req[t].id) =>
                  /\ ~result[t].ok
                  /\ Answered(t) =>
                        /\ result[t].msg = "Manifest ID mismatch"
                        /\ result[t].arg = req[t].id \o Stored(req[t].id).v.node_id
            /\ ReturnsValue(t) => ReturnedNodeId(t) = req[t].id

\* C1 witness: a finished load of NodeA whose stored envelope names NodeB as
\* node_id and NodeA as computed_node_id, failed with the mismatch error; and
\* a finished load that returned a tree whose computed_node_id differs
C1_Witness ==
    \E t \in Tasks, u \in Tasks :
        /\ Done(t) /\ req[t].op = "load" /\ req[t].id = NodeA
        /\ StoredMismatch(NodeA)
        /\ Stored(NodeA).v.computed_node_id = NodeA
        /\ ~result[t].ok /\ result[t].msg = "Manifest ID mismatch"
        /\ Done(u) /\ req[u].op = "load" /\ req[u].id = NodeB
        /\ ReturnsValue(u)
        /\ result[u].val.v.node_id = NodeB

\* the fetched bytes are malformed for the call: they fail envelope decoding,
\* the identity check or, for load, manifest parsing
Malformed(r, bytes) ==
    \/ bytes.magic # "envelope"
    \/ bytes.node_id # r.id
    \/ r.op = "load" /\ ~ManifestContentParse(bytes.contents).ok

IsAbsentValue(r) == r.ok /\ "some" \in DOMAIN r.val /\ ~r.val.some
IsContentMissing(r) == ~r.ok /\ r.msg = "HgContentMissing"

\* C2: for a non-null identity, load and fetch_manifest_envelope_opt return
\* the absent value exactly when the blobstore returned nothing, and
\* fetch_manifest_envelope fails with ContentMissing exactly then; bytes that
\* fail decoding, the identity check or parsing give an error that is neither
\* the absent value nor ContentMissing.
C2_MissingNotMalformed ==
    \A t \in Tasks :
        (Done(t) /\ req[t].id # NULL_HASH) =>
            LET nothing == got[t] = Ok(None) IN
            /\ req[t].op \in {"load", "fetch_manifest_envelope_opt"} =>
                  /\ IsAbsentValue(result[t]) <=> nothing
                  /\ ~IsContentMissing(result[t])
            /\ req[t].op = "fetch_manifest_envelope" =>
                  /\ IsContentMissing(result[t]) <=> nothing
                  /\ nothing => result[t].arg = req[t].id
            /\ (Answered(t) /\ got[t].val.some /\ Malformed(req[t], got[t].val.v)) =>
                  /\ ~result[t].ok
                  /\ ~IsContentMissing(result[t])

\* C2 witness: one load found nothing and returned the absent value while
\* another load fetched undecodable bytes and failed
C2_Witness ==
    \E t \in Tasks, u \in Tasks :
        /\ Done(t) /\ req[t].op = "load" /\ req[t].id = NodeB
        /\ got[t] = Ok(None) /\ IsAbsentValue(result[t])
        /\ Done(u) /\ req[u].op = "load" /\ req[u].id = NodeA
        /\ Answered(u) /\ got[u].val.some /\ got[u].val.v = GarbageBlob
        /\ ~result[u].ok

\* C3: a load of the null identity succeeds with a tree of no children
\* (every lookup absent, list empty), node_id null, both parents absent, and
\* issues no blobstore get, whatever the blobstore holds.
C3_NullTree ==
    \A t \in Tasks :
        (Done(t) /\ req[t].op = "load" /\ req[t].id = NULL_HASH) =>
            /\ result[t].ok /\ result[t].val.some
            /\ LET m == result[t].val.v IN
               /\ DOMAIN m.content.files = {}
               /\ \A p \in ProbePaths : lookup(m, p) = None
               /\ list(m) = <<>>
               /\ m.node_id = NULL_HASH
               /\ m.p1 = None /\ m.p2 = None
            /\ gets[t] = 0
            /\ got[t] = NotRun

\* C3 witness: a finished load of the null identity while a blob is stored
\* under the null identity's key
C3_Witness ==
    \E t \in Tasks :
        /\ Done(t) /\ req[t].op = "load" /\ req[t].id = NULL_HASH
        /\ Stored(NULL_HASH).some
        /\ result[t].ok

\* the outcome of the call r run alone against the store
RunAlone(r, store, storeFails) ==
    IF r.op = "load" /\ r.id = NULL_HASH THEN Ok(Some(NullManifest))
    ELSE Continuation(r, IF storeFails THEN BlobstoreGetFailed
                         ELSE BlobstoreGet(store, BlobstoreKey(r.id)))

C10_Outcomes ==
    /\ \A t \in Tasks :
          Done(t) =>
              result[t] = RunAlone(req[t], blobstore,
                                   got[t] # NotRun /\ ~got[t].ok)
    /\ \A t \in Tasks, u \in Tasks :
          (/\ Done(t) /\ Done(u)
           /\ req[t].op = "load" /\ req[u].op = "load" /\ req[t].id = req[u].id
           /\ ReturnsValue(t) /\ ReturnsValue(u)) =>
              result[t].val.v = result[u].val.v

\* C10: under every interleaving of the calls' steps, each finished call's
\* outcome is the outcome of running it alone against the blobstore (with
\* the same answer or failure of the store), two loads of one identity that
\* return trees return equal trees, and no step changes the blobstore.
C10_Independent == [](C10_Outcomes) /\ [][blobstore' = blobstore]_vars

\* C10 witness: a load of NodeA has finished with a tree while another load
\* of NodeA holds its fetched bytes and has not yet parsed them
C10_Witness ==
    \E t \in Tasks, u \in Tasks :
        /\ Done(t) /\ req[t].op = "load" /\ req[t].id = NodeA
        /\ ReturnsValue(t)
        /\ pc[u] = "fetched" /\ req[u].op = "load" /\ req[u].id = NodeA

-----------------------------------------------------------------------------
(* Properties of DataEntry, under SpecData *)

MinNode(a, b) == IF BytesLess(b, a) THEN b ELSE a
MaxNode(a, b) == IF BytesLess(b, a) THEN a ELSE b

\* the key is the hash of min(p1,p2) || max(p1,p2) || data
KeyMatches(e) ==
    LET ps == IntoNodes(e.parents) IN
    e.key.node = Sha1(MinNode(ps[1], ps[2]) \o MaxNode(ps[1], ps[2]) \o e.data)

Swapped(e) == [e EXCEPT !.parents = <<e.parents[2], e.parents[1]>>]

\* C4: validation succeeds exactly when the key node is the hash of
\* min(p1,p2) || max(p1,p2) || payload (nodes compared as byte sequences,
\* an absent parent being the null node); swapping p1 and p2 does not change
\* the outcome; and when p1 > p2 the hash of p1 || p2 || payload is another
\* digest, so a key equal to it does not validate.
C4_SortedParentHash ==
    LET ps == IntoNodes(entry.parents)
        unsorted == Sha1(ps[1] \o ps[2] \o entry.data)
    IN  /\ validate(entry).ok <=> KeyMatches(entry)
        /\ validate(Swapped(entry)).ok <=> validate(entry).ok
        /\ BytesLess(ps[2], ps[1]) =>
              /\ unsorted # Sha1(ps[2] \o ps[1] \o entry.data)
              /\ entry.key.node = unsorted => ~validate(entry).ok
        /\ (dataOut # NotRun /\ dataOut.validate) =>
              (dataOut.res.ok <=> KeyMatches(entry))

\* C4 witness: data(true) succeeded on an entry with p1 = bb..b, p2 = aa..a,
\* whose key is the hash of p2 || p1 || payload
C4_Witness ==
    /\ dataOut # NotRun /\ dataOut.validate /\ dataOut.res.ok
    /\ entry.parents = <<Some(NodeB), Some(NodeA)>>
    /\ entry.key.node = Sha1(NodeA \o NodeB \o entry.data)

\* C5: data(false) returns the stored payload for every entry; data(true)
\* returns the stored payload when the key matches the content hash and
\* otherwise fails with the content-hash-mismatch error naming the expected
\* and the computed node; the entry is unchanged by the call.
C5_DataAccess ==
    dataOut # NotRun =>
        /\ entry = dataOut.self
        /\ ~dataOut.validate => dataOut.res = Ok(entry.data)
        /\ dataOut.validate =>
              IF KeyMatches(entry) THEN dataOut.res = Ok(entry.data)
              ELSE /\ ~dataOut.res.ok
                   /\ dataOut.res.msg = "Content hash validation failed"
                   /\ SubSeq(dataOut.res.arg, 1, NodeLen) = entry.key.node

\* C5 witness: data(false) returned the payload of an entry whose key does
\* not match its content hash
C5_Witness ==
    /\ dataOut # NotRun /\ ~dataOut.validate
    /\ ~KeyMatches(entry)
    /\ entry.data # <<>>
    /\ dataOut.res = Ok(entry.data)

-----------------------------------------------------------------------------
(* Properties of ManifestContent::parse, under SpecParse and SpecEntry *)

Parsed == parseResult # NotRun

IsHexNode(h) == Len(h) = HexLen /\ \A i \in 1..Len(h) : HexVal(h[i]) >= 0
IsPathSegment(p) == p # <<>> /\ \A i \in 1..Len(p) : p[i] \notin {NUL, NL}

\* a record  <path> \0 <40 hex> [<flag>]  of the grammar
WellFormedRec(r) ==
    /\ r.sep
    /\ IsPathSegment(r.path)
    /\ IsHexNode(r.hash)
    /\ r.flags \in {<<>>, <<108>>, <<120>>, <<116>>}

\* every record is well-formed, except that empty records may end the
\* payload: nothing but empty records follows an empty record
StrictGrammar(rs) ==
    \A i \in 1..Len(rs) :
        \/ WellFormedRec(rs[i])
        \/ rs[i] = EmptyRec /\ \A j \in (i + 1)..Len(rs) : rs[j] = EmptyRec

\* C6: parsing is strict over the whole payload: it succeeds only if every
\* record is well-formed, empty records being allowed only at the end of the
\* payload; a payload with a non-empty record after an empty record (a valid
\* record, two newlines, then further bytes) fails.
C6_StrictOverWholePayload ==
    (Parsed /\ parseResult.ok) => StrictGrammar(recs)

\* the first record that is not well-formed, 0 if there is none
FirstBad(rs) ==
    IF \A i \in 1..Len(rs) : WellFormedRec(rs[i]) THEN 0
    ELSE CHOOSE i \in 1..Len(rs) :
             /\ ~WellFormedRec(rs[i])
             /\ \A j \in 1..(i - 1) : WellFormedRec(rs[j])

\* C8: when the first record that is not well-formed is a non-empty record
\* without NUL, parsing fails with the "no separator" error; when it is a
\* record whose NUL is followed by no bytes, with the "no hash" error; when
\* its 40-character hash field is not a node, it fails; in each case the
\* whole parse is an error, whatever the earlier records were.
C8_MalformedRecordCauses ==
    (Parsed /\ FirstBad(recs) # 0) =>
        LET r == recs[FirstBad(recs)] IN
        /\ (~r.sep /\ r.path # <<>>) =>
              (~parseResult.ok /\ parseResult.msg = "Malformed entry: no \\0")
        /\ (r.sep /\ r.hash = <<>> /\ r.flags = <<>>) =>
              (~parseResult.ok /\ parseResult.msg = "Malformed entry: no hash")
        /\ (r.sep /\ IsPathSegment(r.path) /\ Len(r.hash) = HexLen
              /\ ~IsHexNode(r.hash)) =>
              (~parseResult.ok /\ parseResult.msg = "malformed hash")

\* the node a hex field of the model's inputs spells
ExpectedNode(h) ==
    IF h = HexA THEN NodeA ELSE IF h = HexB THEN NodeB ELSE NodeMixed

ScenarioMapping ==
    (PathFile :> FileEntry("Regular", NodeA)) @@ (PathSubdir :> TreeEntry(NodeB))

\* C7: a record  <path> \0 <40 hex of node n> f  parses to path -> File(Regular, n)
\* when f is empty, File(Symlink, n) for 'l', File(Executable, n) for 'x',
\* Tree(n) for 't'; any other single flag byte fails with the unknown-flag
\* error naming the byte; more than one flag byte fails.  The payload
\* file.txt -> a*40, subdir -> b*40 t parses to exactly those two entries.
C7_FlagMapping ==
    /\ ManifestContentParse(ScenarioPayload) = Ok([files |-> ScenarioMapping])
    /\ Parsed =>
          LET r == recs[1]
              n == ExpectedNode(r.hash)
              one(e) == parseResult = Ok([files |-> (r.path :> e)])
          IN  /\ r.flags = <<>> => one(FileEntry("Regular", n))
              /\ r.flags = <<108>> => one(FileEntry("Symlink", n))
              /\ r.flags = <<120>> => one(FileEntry("Executable", n))
              /\ r.flags = <<116>> => one(TreeEntry(n))
              /\ (Len(r.flags) = 1 /\ r.flags[1] \notin {108, 120, 116}) =>
                    /\ ~parseResult.ok
                    /\ parseResult.msg = "Unknown flag"
                    /\ parseResult.arg = r.flags
              /\ Len(r.flags) > 1 =>
                    /\ ~parseResult.ok
                    /\ parseResult.msg = "More than 1 flag"

\* C7 witness: the record  subdir \0 0123..cdef0123.. t  was parsed to a tree
\* entry of the node 01 23 45 .. ef ..
C7_Witness ==
    /\ Parsed
    /\ recs = <<Rec(PathSubdir, TRUE, HexMixed, <<116>>)>>
    /\ parseResult.ok
    /\ parseResult.val.files[PathSubdir] = TreeEntry(NodeMixed)

-----------------------------------------------------------------------------
(* Properties of lookup and list, under SpecTree *)

Ident(h) == <<h.type, h.ft, h.node>>

\* C9: lookup(p) returns a handle of entry identity E exactly when list()
\* yields exactly one handle for (p, E), and is absent exactly when list()
\* yields no handle with path p; list() is strictly increasing in the path
\* bytes; and results recorded by earlier lookup and list calls equal what
\* the calls return now, the tree being unchanged by them.
C9_LookupListConsistent ==
    tree # NotRun =>
        LET L == list(tree)
            count(p, E) ==
                Cardinality({i \in 1..Len(L) : L[i].path = p /\ Ident(L[i]) = E})
            idents == {Ident(L[i]) : i \in 1..Len(L)}
        IN  /\ \A p \in ProbePaths :
                  LET r == lookup(tree, p) IN
                  /\ \A E \in idents :
                        (r.some /\ Ident(r.v) = E) <=> count(p, E) = 1
                  /\ r.some => Ident(r.v) \in idents
                  /\ ~r.some <=> \A i \in 1..Len(L) : L[i].path # p
            /\ \A i \in 1..Len(L), j \in 1..Len(L) :
                  i < j => BytesLess(L[i].path, L[j].path)
            /\ listRes # NotRun => (listRes.res = L /\ listRes.self = tree)
            /\ lookupRes # NotRun =>
                  /\ lookupRes.res = lookup(tree, lookupRes.path)
                  /\ lookupRes.self = tree

\* C9 witness: a tree with children a, ab and file.txt was listed, and a
\* lookup of ab found its entry
C9_Witness ==
    /\ tree # NotRun /\ listRes # NotRun /\ lookupRes # NotRun
    /\ Len(listRes.res) = 3
    /\ listRes.res[1].path = PathA /\ listRes.res[2].path = PathAB
    /\ listRes.res[3].path = PathFile
    /\ lookupRes.path = PathAB /\ lookupRes.res.some

-----------------------------------------------------------------------------
(* Duplicate path segments, under SpecParse *)

\* the records the parser reads: those before the first empty record
Effective(rs) ==
    IF \A i \in 1..Len(rs) : rs[i] # EmptyRec THEN rs
    ELSE SubSeq(rs, 1, (CHOOSE i \in 1..Len(rs) :
                            /\ rs[i] = EmptyRec
                            /\ \A j \in 1..(i - 1) : rs[j] # EmptyRec) - 1)

\* the entry identity a well-formed record spells
ExpectedEntry(r) ==
    IF r.flags = <<>> THEN FileEntry("Regular", ExpectedNode(r.hash))
    ELSE IF r.flags = <<108>> THEN FileEntry("Symlink", ExpectedNode(r.hash))
    ELSE IF r.flags = <<120>> THEN FileEntry("Executable", ExpectedNode(r.hash))
    ELSE TreeEntry(ExpectedNode(r.hash))

\* two records of rs carry the same path segment
HasDuplicate(rs) ==
    \E i \in 1..Len(rs), j \in 1..Len(rs) : i < j /\ rs[i].path = rs[j].path

\* C11: when every record read is well-formed, parsing succeeds even if
\* several records carry the same path segment; the mapping has one key per
\* distinct path segment, and the value under a segment is the entry identity
\* of the last record carrying it.
C11_LastDuplicateWins ==
    (Parsed /\ \A i \in 1..Len(Effective(recs)) : WellFormedRec(Effective(recs)[i])) =>
        LET rs == Effective(recs) IN
        /\ parseResult.ok
        /\ DOMAIN parseResult.val.files = {rs[i].path : i \in 1..Len(rs)}
        /\ \A i \in 1..Len(rs) :
              (\A j \in (i + 1)..Len(rs) : rs[j].path # rs[i].path) =>
                  parseResult.val.files[rs[i].path] = ExpectedEntry(rs[i])

\* C11 witness: file.txt -> a*40 followed by file.txt -> b*40 l was parsed;
\* the mapping holds file.txt once, as the symlink to bb..b
C11_Witness ==
    /\ Parsed
    /\ Len(recs) >= 2 /\ recs[1] = RecFileA /\ recs[2] = RecFileBLink
    /\ HasDuplicate(Effective(recs))
    /\ parseResult.ok
    /\ parseResult.val.files[PathFile] = FileEntry("Symlink", NodeB)

====
